---------------------------- MODULE Spec2Model ----------------------------
(***************************************************************************)
(* Model of the list-query engine of the NestJS boilerplate:               *)
(*   QueryBuilderService  (src/common/services/query-builder.service.ts)   *)
(*   UsersService         (src/modules/users/users.service.ts)             *)
(*   CacheService         (src/modules/cache/cache.service.ts)             *)
(*                                                                         *)
(* A JavaScript string is a sequence of tokens (each token a chunk of      *)
(* characters, e.g. <<"username", ":", "ASC">>); concatenation is \o.      *)
(* Names and punctuation are separate tokens, and user-supplied strings    *)
(* use no digit tokens, so two token sequences are equal exactly when the  *)
(* strings they spell are equal.  A JavaScript value is a record           *)
(* [t |-> type tag, v |-> payload].                                        *)
(***************************************************************************)
EXTENDS Integers, Sequences, FiniteSets, TLC

(***************************************************************************)
(* JavaScript values                                                       *)
(***************************************************************************)
Undef == [t |-> "undef", v |-> 0]
Null == [t |-> "null", v |-> 0]
Str(s) == [t |-> "str", v |-> s]
Num(n) == [t |-> "num", v |-> n]
Arr(a) == [t |-> "arr", v |-> a]
\* true is 1, false is 0
Bool(b) == [t |-> "bool", v |-> IF b THEN 1 ELSE 0]
\* an object literal: the sequence of its <<key, value>> entries in
\* Object.keys order
Obj(e) == [t |-> "obj", v |-> e]

\* the condition of `if (x)`, `!x` and `x || d`
Truthy(x) ==
  CASE x.t = "undef" -> FALSE
    [] x.t = "null" -> FALSE
    [] x.t = "num" -> x.v # 0
    [] x.t = "str" -> x.v # <<>>
    [] x.t = "bool" -> x.v = 1
    [] OTHER -> TRUE

\* x || d
OrElse(x, d) == IF Truthy(x) THEN x ELSE d

\* the decimal digits of an integer, as one token
NumToken(n) == IF n < 0 THEN "-" \o ToString(0 - n) ELSE ToString(n)

RECURSIVE Join(_, _)
\* Array.prototype.join on an array of strings
Join(parts, sep) ==
  IF parts = <<>> THEN <<>>
  ELSE IF Len(parts) = 1 THEN parts[1]
  ELSE parts[1] \o sep \o Join(Tail(parts), sep)

RECURSIVE ToStr(_)
\* String(x), as performed by a template literal `${x}`
ToStr(x) ==
  CASE x.t = "str" -> x.v
    [] x.t = "num" -> <<NumToken(x.v)>>
    [] x.t = "undef" -> <<"undefined">>
    [] x.t = "null" -> <<"null">>
    [] x.t = "bool" -> IF x.v = 1 THEN <<"true">> ELSE <<"false">>
    [] x.t = "arr" ->
         Join([i \in 1..Len(x.v) |->
                 IF x.v[i].t \in {"undef", "null"} THEN <<>> ELSE ToStr(x.v[i])],
              <<",">>)
    [] OTHER -> <<"[object Object]">>

RECURSIVE SplitOn(_, _)
\* String.prototype.split(sep) for a one-token separator
SplitOn(s, sep) ==
  IF \E i \in 1..Len(s) : s[i] = sep
  THEN LET i == CHOOSE j \in 1..Len(s) :
                  s[j] = sep /\ \A k \in 1..(j - 1) : s[k] # sep
       IN <<SubSeq(s, 1, i - 1)>> \o SplitOn(SubSeq(s, i + 1, Len(s)), sep)
  ELSE <<s>>

RECURSIVE TrimLeft(_)
TrimLeft(s) == IF s # <<>> /\ Head(s) = " " THEN TrimLeft(Tail(s)) ELSE s

RECURSIVE TrimRight(_)
TrimRight(s) ==
  IF s # <<>> /\ s[Len(s)] = " " THEN TrimRight(SubSeq(s, 1, Len(s) - 1)) ELSE s

\* String.prototype.trim
Trim(s) == TrimRight(TrimLeft(s))

\* Array.prototype.includes
Includes(arr, x) == \E i \in 1..Len(arr) : arr[i] = x

\* Math.min
Min(a, b) == IF a <= b THEN a ELSE b

\* used by the properties only
Max(a, b) == IF a >= b THEN a ELSE b

\* rounding down instead of up
Ceil_AsFloor(a, b) == a \div b

\* Math.ceil(a / b) on integers, b # 0
Ceil(a, b) == IF b > 0 THEN 0 - ((0 - a) \div b) ELSE 0 - (a \div (0 - b))

(***************************************************************************)
(* The TypeORM SelectQueryBuilder, as far as the service drives it: the    *)
(* predicates added by andWhere, the ORDER BY list, skip, take, and the    *)
(* log of the methods called on it.                                        *)
(***************************************************************************)
NewQueryBuilder ==
  [wheres |-> <<>>, orders |-> <<>>, skip |-> Undef, take |-> Undef, calls |-> <<>>]

\* a builder that writes the value into the text instead of binding it
AndWhere_Inlined(qb, sql, name, value) ==
  [qb EXCEPT !.wheres = Append(@, [sql |-> sql \o <<" /* ">> \o ToStr(value) \o <<" */">>,
                                   name |-> name, value |-> value]),
             !.calls = Append(@, "andWhere")]

AndWhere(qb, sql, name, value) ==
  [qb EXCEPT !.wheres = Append(@, [sql |-> sql, name |-> name, value |-> value]),
             !.calls = Append(@, "andWhere")]

\* an orderBy that keeps the ordering the builder already had
OrderBy_Appending(qb, path, dir) ==
  [qb EXCEPT !.orders = Append(@, [path |-> path, dir |-> dir]),
             !.calls = Append(@, "orderBy")]

OrderBy(qb, path, dir) ==
  [qb EXCEPT !.orders = <<[path |-> path, dir |-> dir]>>,
             !.calls = Append(@, "orderBy")]

AddOrderBy(qb, path, dir) ==
  [qb EXCEPT !.orders = Append(@, [path |-> path, dir |-> dir]),
             !.calls = Append(@, "addOrderBy")]

SkipTake(qb, skip, take) ==
  [qb EXCEPT !.skip = Num(skip), !.take = Num(take),
             !.calls = @ \o <<"skip", "take">>]

NoError == [type |-> "none", msg |-> <<>>]
BadRequestException(msg) == [type |-> "BadRequestException", msg |-> msg]

Called(qb, method) == \E i \in 1..Len(qb.calls) : qb.calls[i] = method

(***************************************************************************)
(* QueryBuilderService.applyPagination                                     *)
(***************************************************************************)
DefaultLimit == 10
MaxLimit == 100

EffectivePage(dto) == OrElse(dto.page, Num(1)).v

\* the limit without the upper clamp
EffectiveLimit_Unclamped(dto) == OrElse(dto.limit, Num(DefaultLimit)).v

EffectiveLimit(dto) == Min(OrElse(dto.limit, Num(DefaultLimit)).v, MaxLimit)

\* the offset counted from page 0
PaginationSkip_FromPageZero(page, limit) == page * limit

PaginationSkip(page, limit) == (page - 1) * limit

applyPagination(qb, dto) ==
  LET page == EffectivePage(dto)
      limit == EffectiveLimit(dto)
  IN SkipTake(qb, PaginationSkip(page, limit), limit)


(***************************************************************************)
(* QueryBuilderService.applySorting                                        *)
(***************************************************************************)
\* the first name of the list that the allowlist does not include, 0 if none
FirstInvalid(names, allowedFields) ==
  IF \E i \in 1..Len(names) : ~Includes(allowedFields, names[i])
  THEN CHOOSE i \in 1..Len(names) :
         /\ ~Includes(allowedFields, names[i])
         /\ \A j \in 1..(i - 1) : Includes(allowedFields, names[j])
  ELSE 0

\* sortBy.split(",").map((field) => field.trim())
SortFields(sortBy) ==
  LET raw == SplitOn(sortBy, ",") IN [i \in 1..Len(raw) |-> Trim(raw[i])]

InvalidSortField(field, allowedFields) ==
  BadRequestException(<<"Invalid sort field: ">> \o field
                        \o <<". Allowed fields: ">> \o Join(allowedFields, <<", ">>))

RECURSIVE ApplySortFields(_, _, _, _, _)
\* sortFields.forEach: orderBy for index 0, addOrderBy for the others
ApplySortFields(qb, fields, index, dir, alias) ==
  IF index > Len(fields) THEN qb
  ELSE LET path == alias \o <<".">> \o fields[index]
           next == IF index = 1 THEN OrderBy(qb, path, dir)
                   ELSE AddOrderBy(qb, path, dir)
       IN ApplySortFields(next, fields, index + 1, dir, alias)

RECURSIVE ApplySortFields_Checking(_, _, _, _, _, _)
ApplySortFields_Checking(qb, fields, index, dir, alias, allowedFields) ==
  IF index > Len(fields) THEN [qb |-> qb, err |-> NoError]
  ELSE IF ~Includes(allowedFields, fields[index])
       THEN [qb |-> qb, err |-> InvalidSortField(fields[index], allowedFields)]
  ELSE LET path == alias \o <<".">> \o fields[index]
           next == IF index = 1 THEN OrderBy(qb, path, dir)
                   ELSE AddOrderBy(qb, path, dir)
       IN ApplySortFields_Checking(next, fields, index + 1, dir, alias, allowedFields)

\* each sort field checked only when its clause is about to be emitted
applySorting_ValidateInLoop(qb, sortBy, sortOrder, allowedFields, alias) ==
  LET dir == IF sortOrder.t = "undef" THEN <<"DESC">> ELSE sortOrder.v IN
  IF ~Truthy(sortBy)
  THEN [qb |-> OrderBy(qb, alias \o <<".", "id">>, <<"DESC">>), err |-> NoError]
  ELSE ApplySortFields_Checking(qb, SortFields(sortBy.v), 1, dir, alias, allowedFields)

\* the default ordering follows the requested direction
applySorting_DefaultFollowsOrder(qb, sortBy, sortOrder, allowedFields, alias) ==
  LET dir == IF sortOrder.t = "undef" THEN <<"DESC">> ELSE sortOrder.v IN
  IF ~Truthy(sortBy)
  THEN [qb |-> OrderBy(qb, alias \o <<".", "id">>, dir), err |-> NoError]
  ELSE LET sortFields == SortFields(sortBy.v)
           bad == FirstInvalid(sortFields, allowedFields)
       IN IF bad # 0
          THEN [qb |-> qb, err |-> InvalidSortField(sortFields[bad], allowedFields)]
          ELSE [qb |-> ApplySortFields(qb, sortFields, 1, dir, alias),
                err |-> NoError]

applySorting(qb, sortBy, sortOrder, allowedFields, alias) ==
  LET dir == IF sortOrder.t = "undef" THEN <<"DESC">> ELSE sortOrder.v IN
  IF ~Truthy(sortBy)
  THEN [qb |-> OrderBy(qb, alias \o <<".", "id">>, <<"DESC">>), err |-> NoError]
  ELSE LET sortFields == SortFields(sortBy.v)
           bad == FirstInvalid(sortFields, allowedFields)
       IN IF bad # 0
          THEN [qb |-> qb, err |-> InvalidSortField(sortFields[bad], allowedFields)]
          ELSE [qb |-> ApplySortFields(qb, sortFields, 1, dir, alias),
                err |-> NoError]

(***************************************************************************)
(* QueryBuilderService.applyFilters and its helpers                        *)
(***************************************************************************)
\* the FilterOperator enum
FilterOperators ==
  {<<"eq">>, <<"ne">>, <<"gt">>, <<"gte">>, <<"lt">>, <<"lte">>, <<"like">>, <<"in">>}

\* field.replace(/\./g, "_")
SanitizeField(field) ==
  [i \in 1..Len(field) |-> IF field[i] = "." THEN "_" ELSE field[i]]

\* operator is Undef when the argument is omitted; timestamp is Date.now()
generateParamName(field, operator, timestamp) ==
  IF Truthy(operator)
  THEN SanitizeField(field) \o <<"_">> \o operator.v \o <<"_", NumToken(timestamp)>>
  ELSE SanitizeField(field) \o <<"_", NumToken(timestamp)>>

RECURSIVE EscapeBackslashes(_)
\* pattern.replace(/\\/g, "\\\\")
EscapeBackslashes(s) ==
  IF s = <<>> THEN <<>>
  ELSE (IF Head(s) = "\\" THEN <<"\\", "\\">> ELSE <<Head(s)>>)
         \o EscapeBackslashes(Tail(s))

RECURSIVE EscapeWildcards(_)
\* .replace(/[%_]/g, "\\$&")
EscapeWildcards(s) ==
  IF s = <<>> THEN <<>>
  ELSE (IF Head(s) \in {"%", "_"} THEN <<"\\", Head(s)>> ELSE <<Head(s)>>)
         \o EscapeWildcards(Tail(s))

\* a value that is not a string is returned as it is
escapeLikePattern(pattern) ==
  IF pattern.t # "str" THEN pattern
  ELSE Str(EscapeWildcards(EscapeBackslashes(pattern.v)))

\* gte and lte lose their equality
Comparison_Strict(operator) ==
  CASE operator = <<"eq">> -> " = :"
    [] operator = <<"ne">> -> " != :"
    [] operator = <<"gt">> -> " > :"
    [] operator = <<"gte">> -> " > :"
    [] operator = <<"lt">> -> " < :"
    [] operator = <<"lte">> -> " < :"

\* the comparison templates `${fieldPath} <cmp> :${paramName}`
Comparison(operator) ==
  CASE operator = <<"eq">> -> " = :"
    [] operator = <<"ne">> -> " != :"
    [] operator = <<"gt">> -> " > :"
    [] operator = <<"gte">> -> " >= :"
    [] operator = <<"lt">> -> " < :"
    [] operator = <<"lte">> -> " <= :"

\* the k-th reading of Date.now() during one call
Tick(clock, k) == clock[Min(k, Len(clock))]

\* st = [qb, err, k]: the builder, the exception thrown so far, and the
\* number of Date.now() readings made
applyFilterOperator(st, fieldPath, operator, value, field, clock) ==
  LET paramName == generateParamName(field, Str(operator), Tick(clock, st.k + 1))
      read == [st EXCEPT !.k = @ + 1]
  IN CASE operator \in {<<"eq">>, <<"ne">>, <<"gt">>, <<"gte">>, <<"lt">>, <<"lte">>} ->
            [read EXCEPT !.qb = AndWhere(@, fieldPath \o <<Comparison(operator)>> \o paramName,
                                         paramName, value)]
       [] operator = <<"like">> ->
            [read EXCEPT !.qb =
               AndWhere(@, <<"LOWER(">> \o fieldPath \o <<") LIKE LOWER(:">>
                             \o paramName \o <<")">>,
                        paramName,
                        Str(<<"%">> \o ToStr(escapeLikePattern(value)) \o <<"%">>))]
       [] operator = <<"in">> ->
            IF value.t = "arr"
            THEN [read EXCEPT !.qb = AndWhere(@, fieldPath \o <<" IN (:...">>
                                                   \o paramName \o <<")">>,
                                              paramName, value)]
            ELSE read
       [] OTHER ->
            [read EXCEPT !.err =
               BadRequestException(<<"Unsupported filter operator: ">> \o operator)]

RECURSIVE ApplyOperators(_, _, _, _, _)
\* Object.entries(filterValue).forEach(...): stops at the first exception
ApplyOperators(st, fieldPath, ops, field, clock) ==
  IF ops = <<>> \/ st.err # NoError THEN st
  ELSE ApplyOperators(
         applyFilterOperator(st, fieldPath, Head(ops)[1], Head(ops)[2], field, clock),
         fieldPath, Tail(ops), field, clock)

\* every field prefixed with the alias, dotted or not
ApplyFilterEntry_AlwaysAliased(st, field, filterValue, alias, clock) ==
  LET fieldPath == alias \o <<".">> \o field IN
  IF filterValue.t = "obj"
  THEN ApplyOperators(st, fieldPath, filterValue.v, field, clock)
  ELSE LET paramName == generateParamName(field, Undef, Tick(clock, st.k + 1))
       IN [st EXCEPT !.k = @ + 1,
                     !.qb = AndWhere(@, fieldPath \o <<" = :">> \o paramName,
                                     paramName, filterValue)]

\* the body of Object.entries(filters).forEach for one entry
ApplyFilterEntry(st, field, filterValue, alias, clock) ==
  LET fieldPath == IF Includes(field, ".") THEN field ELSE alias \o <<".">> \o field IN
  IF filterValue.t = "obj"
  THEN ApplyOperators(st, fieldPath, filterValue.v, field, clock)
  ELSE LET paramName == generateParamName(field, Undef, Tick(clock, st.k + 1))
       IN [st EXCEPT !.k = @ + 1,
                     !.qb = AndWhere(@, fieldPath \o <<" = :">> \o paramName,
                                     paramName, filterValue)]

RECURSIVE ApplyFilterEntries(_, _, _, _)
ApplyFilterEntries(st, entries, alias, clock) ==
  IF entries = <<>> \/ st.err # NoError THEN st
  ELSE ApplyFilterEntries(
         ApplyFilterEntry(st, Head(entries)[1], Head(entries)[2], alias, clock),
         Tail(entries), alias, clock)

InvalidFilterField(field, allowedFields) ==
  BadRequestException(<<"Invalid filter field: ">> \o field
                        \o <<". Allowed fields: ">> \o Join(allowedFields, <<", ">>))

\* Object.keys(filters)
Keys(filters) == [i \in 1..Len(filters.v) |-> filters.v[i][1]]

RECURSIVE ApplyFilterEntries_Checking(_, _, _, _, _)
ApplyFilterEntries_Checking(st, entries, alias, clock, allowedFields) ==
  IF entries = <<>> \/ st.err # NoError THEN st
  ELSE IF ~Includes(allowedFields, Head(entries)[1])
       THEN [st EXCEPT !.err = InvalidFilterField(Head(entries)[1], allowedFields)]
  ELSE ApplyFilterEntries_Checking(
         ApplyFilterEntry(st, Head(entries)[1], Head(entries)[2], alias, clock),
         Tail(entries), alias, clock, allowedFields)

\* each filter field checked only when its predicates are about to be built
applyFilters_ValidateInLoop(qb, filters, allowedFields, alias, clock) ==
  IF ~Truthy(filters) \/ Len(filters.v) = 0
  THEN [qb |-> qb, err |-> NoError]
  ELSE LET st == ApplyFilterEntries_Checking([qb |-> qb, err |-> NoError, k |-> 0],
                                             filters.v, alias, clock, allowedFields)
       IN [qb |-> st.qb, err |-> st.err]

applyFilters(qb, filters, allowedFields, alias, clock) ==
  IF ~Truthy(filters) \/ Len(filters.v) = 0
  THEN [qb |-> qb, err |-> NoError]
  ELSE LET bad == FirstInvalid(Keys(filters), allowedFields) IN
       IF bad # 0
       THEN [qb |-> qb, err |-> InvalidFilterField(Keys(filters)[bad], allowedFields)]
       ELSE LET st == ApplyFilterEntries([qb |-> qb, err |-> NoError, k |-> 0],
                                         filters.v, alias, clock)
            IN [qb |-> st.qb, err |-> st.err]

(***************************************************************************)
(* IsAllowedFieldConstraint.validate, the check the DTO decorator          *)
(* @IsAllowedField(allowedFields) runs on a property                       *)
(***************************************************************************)
\* a validator that compares the names as they stand between the commas
validate_Untrimmed(value, allowedFields) ==
  IF ~Truthy(value) THEN TRUE
  ELSE IF value.t # "str" THEN FALSE
  ELSE LET fields == SplitOn(value.v, ",")
       IN \A i \in 1..Len(fields) : Includes(allowedFields, fields[i])

validate(value, allowedFields) ==
  IF ~Truthy(value) THEN TRUE
  ELSE IF value.t # "str" THEN FALSE
  ELSE LET raw == SplitOn(value.v, ",")
           fields == [i \in 1..Len(raw) |-> Trim(raw[i])]
       IN \A i \in 1..Len(fields) : Includes(allowedFields, fields[i])

(***************************************************************************)
(* QueryBuilderService.paginate: the metadata computed once the store has  *)
(* answered getManyAndCount with [data, totalCount]                        *)
(***************************************************************************)
\* metadata that reports the limit as requested, without the upper clamp
PageMetadata_RequestedLimit(dto, totalCount) ==
  LET page == EffectivePage(dto)
      limit == OrElse(dto.limit, Num(DefaultLimit)).v
      totalPages == Ceil(totalCount, limit)
  IN [page |-> page, limit |-> limit, totalCount |-> totalCount,
      totalPages |-> totalPages,
      hasNextPage |-> page < totalPages,
      hasPreviousPage |-> page > 1]

PageMetadata(dto, totalCount) ==
  LET page == EffectivePage(dto)
      limit == EffectiveLimit(dto)
      totalPages == Ceil(totalCount, limit)
  IN [page |-> page, limit |-> limit, totalCount |-> totalCount,
      totalPages |-> totalPages,
      hasNextPage |-> page < totalPages,
      hasPreviousPage |-> page > 1]

PaginatedResponse(dto, data, totalCount) ==
  [data |-> data, metadata |-> PageMetadata(dto, totalCount)]

(***************************************************************************)
(* JSON.stringify, as far as the values of a request go                    *)
(***************************************************************************)
RECURSIVE JsonEscape(_)
\* a double quote or a backslash inside a JSON string gets a backslash
JsonEscape(s) ==
  IF s = <<>> THEN <<>>
  ELSE (IF Head(s) \in {"\"", "\\"} THEN <<"\\", Head(s)>> ELSE <<Head(s)>>)
         \o JsonEscape(Tail(s))

JsonString(s) == <<"\"">> \o JsonEscape(s) \o <<"\"">>

RECURSIVE Stringify(_)
Stringify(x) ==
  CASE x.t = "str" -> JsonString(x.v)
    [] x.t = "num" -> <<NumToken(x.v)>>
    [] x.t = "arr" ->
         <<"[">> \o Join([i \in 1..Len(x.v) |->
                            IF x.v[i].t = "undef" THEN <<"null">> ELSE Stringify(x.v[i])],
                         <<",">>) \o <<"]">>
    [] x.t = "obj" ->
         LET present == SelectSeq(x.v, LAMBDA e : e[2].t # "undef")
         IN <<"{">> \o Join([i \in 1..Len(present) |->
                               JsonString(present[i][1]) \o <<":">>
                                 \o Stringify(present[i][2])],
                            <<",">>) \o <<"}">>
    [] OTHER -> <<"null">>

(***************************************************************************)
(* UsersService: allowlists and the cache key                              *)
(***************************************************************************)
allowedSortFields == <<<<"username">>, <<"email">>, <<"createdAt">>, <<"updatedAt">>>>

allowedFilterFields == <<<<"username">>, <<"email">>, <<"role">>>>

UserAlias == <<"user">>

CacheTtl == 60

\* parts.push(`page:${queryDto.page}`) and the like
KeyPart(parts, label, x, text) ==
  IF Truthy(x) THEN Append(parts, <<label, ":">> \o text) ELSE parts

generateCacheKey(dto) ==
  LET p0 == <<<<"users">>>>
      p1 == KeyPart(p0, "page", dto.page, ToStr(dto.page))
      p2 == KeyPart(p1, "limit", dto.limit, ToStr(dto.limit))
      p3 == KeyPart(p2, "sortBy", dto.sortBy, ToStr(dto.sortBy))
      p4 == KeyPart(p3, "sortOrder", dto.sortOrder, ToStr(dto.sortOrder))
      p5 == KeyPart(p4, "filters", dto.filters, Stringify(dto.filters))
  IN Join(p5, <<":">>)

\* redis.keys("users*"): the keys that begin with "users"
MatchesUsersPattern(key) == key # <<>> /\ key[1] = "users"

(***************************************************************************)
(* The store behind the query builder: the user table and the execution of *)
(* getManyAndCount.  Rows are listed in table order; the model does not    *)
(* interpret ORDER BY.                                                     *)
(***************************************************************************)
\* usernames in alphabetical order; row i of the table is named Names[i]
Names == <<"alice", "bob", "carol", "dave", "erin", "frank">>

Row(i) == [id |-> i, username |-> <<Names[i]>>,
           createdAt |-> [t |-> "Date", v |-> i]]

NameRank(s) ==
  IF Len(s) = 1 /\ \E i \in 1..Len(Names) : Names[i] = s[1]
  THEN CHOOSE i \in 1..Len(Names) : Names[i] = s[1]
  ELSE 0

ComparisonTokens == {" = :", " != :", " > :", " >= :", " < :", " <= :", " IN (:..."}

\* the column and the comparison of a predicate's SQL text
PredicateShape(sql) ==
  IF sql # <<>> /\ Head(sql) = "LOWER("
  THEN LET i == CHOOSE j \in 1..Len(sql) : sql[j] = ") LIKE LOWER(:"
       IN [column |-> SubSeq(sql, 2, i - 1), cmp |-> "LIKE"]
  ELSE LET i == CHOOSE j \in 1..Len(sql) : sql[j] \in ComparisonTokens
       IN [column |-> SubSeq(sql, 1, i - 1), cmp |-> sql[i]]

KnownColumns == {<<"user", ".", "username">>, <<"user", ".", "email">>}

ColumnValue(row, column) ==
  IF column = <<"user", ".", "username">> THEN row.username
  ELSE row.username \o <<"@example.com">>

RECURSIVE LikeMatch(_, _)
\* SQL LIKE with backslash as the escape character
LikeMatch(pattern, s) ==
  IF pattern = <<>> THEN s = <<>>
  ELSE IF Head(pattern) = "%"
       THEN LikeMatch(Tail(pattern), s) \/ (s # <<>> /\ LikeMatch(pattern, Tail(s)))
  ELSE IF Head(pattern) = "_"
       THEN s # <<>> /\ LikeMatch(Tail(pattern), Tail(s))
  ELSE IF Head(pattern) = "\\" /\ Len(pattern) >= 2
       THEN s # <<>> /\ Head(s) = pattern[2] /\ LikeMatch(Tail(Tail(pattern)), Tail(s))
  ELSE s # <<>> /\ Head(s) = Head(pattern) /\ LikeMatch(Tail(pattern), Tail(s))

\* a named parameter holds the value of the last andWhere that bound it
BoundValue(qb, name) ==
  LET last == CHOOSE i \in 1..Len(qb.wheres) :
                /\ qb.wheres[i].name = name
                /\ \A j \in (i + 1)..Len(qb.wheres) : qb.wheres[j].name # name
  IN qb.wheres[last].value

Satisfies(row, qb, w) ==
  LET shape == PredicateShape(w.sql)
      lhs == ColumnValue(row, shape.column)
      rhs == BoundValue(qb, w.name)
      ordered == rhs.t = "str" /\ NameRank(rhs.v) # 0 /\ NameRank(lhs) # 0
  IN CASE shape.cmp = " = :" -> rhs = Str(lhs)
       [] shape.cmp = " != :" -> rhs # Str(lhs)
       [] shape.cmp = " > :" -> ordered /\ NameRank(lhs) > NameRank(rhs.v)
       [] shape.cmp = " >= :" -> ordered /\ NameRank(lhs) >= NameRank(rhs.v)
       [] shape.cmp = " < :" -> ordered /\ NameRank(lhs) < NameRank(rhs.v)
       [] shape.cmp = " <= :" -> ordered /\ NameRank(lhs) <= NameRank(rhs.v)
       [] shape.cmp = "LIKE" -> rhs.t = "str" /\ LikeMatch(rhs.v, lhs)
       [] OTHER -> \E i \in 1..Len(rhs.v) : rhs.v[i] = Str(lhs)

\* the rows the WHERE clause keeps, in table order
MatchingRows(table, qb) ==
  SelectSeq([i \in 1..table |-> Row(i)],
            LAMBDA row : \A i \in 1..Len(qb.wheres) : Satisfies(row, qb, qb.wheres[i]))

\* the database rejects a negative OFFSET or LIMIT and an unknown column
StoreRejects(qb) ==
  \/ qb.skip.v < 0
  \/ qb.take.v < 0
  \/ \E i \in 1..Len(qb.wheres) : PredicateShape(qb.wheres[i].sql).column \notin KnownColumns

\* [data, totalCount] of getManyAndCount
getManyAndCount(table, qb) ==
  LET rows == MatchingRows(table, qb)
      total == Len(rows)
      first == qb.skip.v + 1
      last == Min(qb.skip.v + qb.take.v, total)
  IN [data |-> SubSeq(rows, first, last), totalCount |-> total]

(***************************************************************************)
(* CacheService: values are stored as JSON text, so what get returns is    *)
(* the value after JSON.parse(JSON.stringify(value)): a Date comes back as *)
(* its ISO string.                                                         *)
(***************************************************************************)
JsonRow(row) == [row EXCEPT !.createdAt = [t |-> "isoString", v |-> @.v]]

JsonRoundTrip(result) ==
  [result EXCEPT !.data = [i \in 1..Len(result.data) |-> JsonRow(result.data[i])]]

\* CacheService.get: null when the key is absent or its text does not parse
NotJson == [data |-> "not JSON"]

get(store, key) ==
  IF key \notin DOMAIN store THEN Null
  ELSE IF store[key].value = NotJson THEN Null
  ELSE store[key].value

(***************************************************************************)
(* QueryExceptionFilter, registered globally in bootstrap: the response    *)
(* an exception thrown by a handler turns into.  An exception is a record  *)
(* [type, msg]; a database error may carry the driver's code, an error its *)
(* name, and an HttpException carries its status and its response (a       *)
(* string or an object).  message and error of the body are JavaScript     *)
(* values.  Of `details` only the validation list is modelled; the         *)
(* development-only details of the other branches are left out.            *)
(***************************************************************************)
NoResponse ==
  [status |-> 0, statusCode |-> 0, message |-> Undef, error |-> Undef,
   details |-> Undef]

\* new HttpException(response, status), or a subclass called `name`, whose
\* own message is msg
HttpException(name, response, status, msg) ==
  [type |-> "HttpException", name |-> name, response |-> response,
   status |-> status, msg |-> msg]

\* a thrown value that is no Error
ThrownValue(value) == [type |-> "value", msg |-> <<>>, value |-> value]

\* exception instanceof HttpException
IsHttpException(exception) ==
  exception.type \in {"HttpException", "BadRequestException"}

\* exception instanceof QueryFailedError
IsQueryFailedError(exception) == exception.type = "QueryFailedError"

\* exception instanceof Error
IsError(exception) == exception.type # "value"

getStatus(exception) ==
  IF exception.type = "BadRequestException" THEN 400 ELSE exception.status

\* new BadRequestException('text') answers with the body Nest builds for it
getResponse(exception) ==
  IF exception.type = "BadRequestException"
  THEN Obj(<<<<<<"message">>, Str(exception.msg)>>,
             <<<<"error">>, Str(<<"Bad Request">>)>>,
             <<<<"statusCode">>, Num(400)>>>>)
  ELSE exception.response

\* exception.name
ErrorName(exception) ==
  IF "name" \in DOMAIN exception THEN exception.name
  ELSE <<exception.type>>

\* obj[key]
Member(obj, key) ==
  IF obj.t # "obj" THEN Undef
  ELSE IF \E i \in 1..Len(obj.v) : obj.v[i][1] = key
  THEN obj.v[CHOOSE i \in 1..Len(obj.v) :
                 obj.v[i][1] = key /\ \A j \in 1..(i - 1) : obj.v[j][1] # key][2]
  ELSE Undef

ErrorCode(exception) ==
  IF "code" \in DOMAIN exception THEN exception.code ELSE "undefined"

Body(status, message, error, details) ==
  [status |-> status, statusCode |-> status, message |-> message,
   error |-> error, details |-> details]

\* a filter that tests for Error before it tests for QueryFailedError
catch_ErrorFirst(exception) ==
  IF IsHttpException(exception)
  THEN LET exceptionResponse == getResponse(exception)
       IN IF exceptionResponse.t \in {"obj", "arr"}
          THEN Body(getStatus(exception),
                    OrElse(Member(exceptionResponse, <<"message">>), Str(exception.msg)),
                    OrElse(Member(exceptionResponse, <<"error">>), Str(ErrorName(exception))),
                    IF Member(exceptionResponse, <<"message">>).t = "arr"
                    THEN Member(exceptionResponse, <<"message">>) ELSE Undef)
          ELSE Body(getStatus(exception), exceptionResponse,
                    Str(ErrorName(exception)), Undef)
  ELSE IF IsError(exception)
  THEN Body(500, Str(exception.msg), Str(ErrorName(exception)), Undef)
  ELSE Body(500, Str(<<"Internal server error">>), Str(<<"InternalServerError">>), Undef)

catch(exception) ==
  IF IsHttpException(exception)
  THEN LET exceptionResponse == getResponse(exception)
       IN IF exceptionResponse.t \in {"obj", "arr"}
          THEN Body(getStatus(exception),
                    OrElse(Member(exceptionResponse, <<"message">>), Str(exception.msg)),
                    OrElse(Member(exceptionResponse, <<"error">>), Str(ErrorName(exception))),
                    IF Member(exceptionResponse, <<"message">>).t = "arr"
                    THEN Member(exceptionResponse, <<"message">>) ELSE Undef)
          ELSE Body(getStatus(exception), exceptionResponse,
                    Str(ErrorName(exception)), Undef)
  ELSE IF IsQueryFailedError(exception)
  THEN CASE ErrorCode(exception) = "23505" ->
              Body(409, Str(<<"Resource already exists">>), Str(<<"ConflictError">>), Undef)
         [] ErrorCode(exception) = "23503" ->
              Body(400, Str(<<"Referenced resource does not exist">>),
                   Str(<<"ReferenceError">>), Undef)
         [] ErrorCode(exception) = "22P02" ->
              Body(400, Str(<<"Invalid data format">>), Str(<<"ValidationError">>), Undef)
         [] OTHER ->
              Body(400, Str(<<"Database query failed">>), Str(<<"QueryError">>), Undef)
  ELSE IF IsError(exception)
  THEN Body(500, Str(exception.msg), Str(ErrorName(exception)), Undef)
  ELSE Body(500, Str(<<"Internal server error">>), Str(<<"InternalServerError">>), Undef)

(***************************************************************************)
(* State                                                                   *)
(***************************************************************************)
VARIABLES
  userCount,  \* the user table: rows Row(1) .. Row(userCount)
  cache,      \* Redis: key |-> [value, ttl]
  pc,         \* per caller: where its findAll or create call stands
  call,       \* per caller: the locals of the call in progress
  ret,        \* how the call that completed last ended
  started,    \* number of calls started so far
  probe,      \* the last direct call of a QueryBuilderService method
  firstStored, \* history: request |-> the value the first findAll of that
               \* request to complete on the miss path stored, since the last
               \* step of a create, expiry of its key or cache fault
  breakers    \* CircuitBreakerService: name |-> the breaker kept under it

vars == <<userCount, cache, pc, call, ret, started, probe, firstStored, breakers>>

Procs == {"p1", "p2"}

\* bounds of the model
MaxCalls == 3
MaxUsers == 4

Dto(page, limit, sortBy, sortOrder, filters) ==
  [page |-> page, limit |-> limit, sortBy |-> sortBy, sortOrder |-> sortOrder,
   filters |-> filters]

NoResult ==
  [data |-> <<>>,
   metadata |-> [page |-> 0, limit |-> 0, totalCount |-> 0, totalPages |-> 0,
                 hasNextPage |-> FALSE, hasPreviousPage |-> FALSE]]

NoCall ==
  [op |-> "none", dto |-> Dto(Undef, Undef, Undef, Undef, Undef), key |-> <<>>,
   qb |-> NewQueryBuilder, result |-> NoResult, table |-> 0, keys |-> {}]

\* table is the size of the user table when the call queried or wrote it
NoReturn ==
  [op |-> "none", proc |-> "none",
   dto |-> Dto(Undef, Undef, Undef, Undef, Undef), key |-> <<>>, kind |-> "none", path |-> "none", value |-> NoResult, err |-> NoError,
   qb |-> NewQueryBuilder, storeCalls |-> 0, table |-> 0, response |-> NoResponse]

\* readings of Date.now() during one findAll: time may or may not advance
Clocks == {<<5, 5, 5>>, <<5, 6, 7>>}

(***************************************************************************)
(* The requests the callers issue                                          *)
(***************************************************************************)
S(token) == Str(<<token>>)

F(field, value) == <<<<field>>, value>>

Requests ==
  { Dto(Undef, Undef, Undef, Undef, Undef),
    Dto(Undef, Undef, S("username"), S("ASC"), Undef),
    Dto(Undef, Undef, Str(<<"username", ":", "sortOrder", ":", "ASC">>), Undef, Undef),
    Dto(Undef, Undef, Str(<<"username", ",", " ", "email">>), S("DESC"), Undef),
    Dto(Undef, Undef, S("password"), Undef, Obj(<<F("username", S("alice"))>>)),
    Dto(Undef, Undef, Undef, Undef,
        Obj(<<F("username", S("alice")), F("password", S("x"))>>)),
    Dto(Undef, Undef, Undef, Undef,
        Obj(<<F("username", Obj(<<F("eq", S("alice")), F("regex", S("x"))>>))>>)),
    Dto(Num(2), Num(2), Undef, Undef, Undef),
    Dto(Num(3), Num(1), Undef, Undef,
        Obj(<<F("username", Obj(<<F("ne", S("alice"))>>))>>)),
    Dto(Num(0), Num(150), Undef, Undef, Undef),
    Dto(Num(1), Num(0 - 5), Undef, Undef, Undef),
    Dto(Num(4), Num(1), Undef, Undef, Undef) }

(***************************************************************************)
(* UsersService.findAll                                                    *)
(***************************************************************************)
\* lines 50-76: createQueryBuilder, applyFilters, applySorting, applyPagination
BuildQuery(dto, clock) ==
  LET f == applyFilters(NewQueryBuilder, dto.filters, allowedFilterFields, UserAlias, clock)
  IN IF f.err # NoError THEN f
     ELSE LET s == applySorting(f.qb, dto.sortBy, dto.sortOrder, allowedSortFields,
                                UserAlias)
          IN IF s.err # NoError THEN s
             ELSE [qb |-> applyPagination(s.qb, dto), err |-> NoError]

\* the call ends; what it throws goes through the global exception filter
Return(p, r) ==
  /\ ret' = [r EXCEPT !.proc = p,
                      !.response = IF r.kind = "error" THEN catch(r.err) ELSE NoResponse]
  /\ pc' = [pc EXCEPT ![p] = "idle"]
  /\ call' = [call EXCEPT ![p] = NoCall]

\* the call starts, reads the cache and, on a miss, builds the query and
\* issues getManyAndCount
FindAllGet(p, dto) ==
  /\ pc[p] = "idle"
  /\ started < MaxCalls
  /\ started' = started + 1
  /\ UNCHANGED <<userCount, cache, probe, firstStored, breakers>>
  /\ LET cacheKey == generateCacheKey(dto)
         cachedResult == get(cache, cacheKey)
         base == [NoReturn EXCEPT !.op = "findAll", !.dto = dto, !.key = cacheKey]
     IN IF cachedResult # Null
        THEN Return(p, [base EXCEPT !.kind = "value", !.path = "hit",
                                    !.value = cachedResult])
        ELSE \E clock \in Clocks :
               LET b == BuildQuery(dto, clock) IN
               IF b.err # NoError
               THEN Return(p, [base EXCEPT !.kind = "error", !.path = "miss",
                                           !.err = b.err, !.qb = b.qb])
               ELSE /\ pc' = [pc EXCEPT ![p] = "query"]
                    /\ call' = [call EXCEPT ![p] =
                                  [NoCall EXCEPT !.op = "findAll", !.dto = dto,
                                                 !.key = cacheKey, !.qb = b.qb]]
                    /\ ret' = ret

QueryFailedError == [type |-> "QueryFailedError", msg |-> <<>>]

\* the store answers getManyAndCount; paginate shapes the response and
\* findAll issues the cache write
FindAllQuery(p) ==
  /\ pc[p] = "query"
  /\ UNCHANGED <<userCount, cache, started, probe, firstStored, breakers>>
  /\ LET c == call[p] IN
     IF StoreRejects(c.qb)
     THEN Return(p, [NoReturn EXCEPT !.op = "findAll", !.dto = c.dto, !.key = c.key,
                                     !.kind = "error", !.path = "miss",
                                     !.err = QueryFailedError, !.qb = c.qb,
                                     !.storeCalls = 1, !.table = userCount])
     ELSE LET r == getManyAndCount(userCount, c.qb) IN
          /\ pc' = [pc EXCEPT ![p] = "set"]
          /\ call' = [call EXCEPT ![p].result =
                        PaginatedResponse(c.dto, r.data, r.totalCount),
                                  ![p].table = userCount]
          /\ ret' = ret

\* a QueryFailedError that carries the database's error code
DatabaseError(code) == [type |-> "QueryFailedError", msg |-> <<>>, code |-> code]

\* what getManyAndCount rejects with when the store fails for a reason of
\* its own: a lost connection (no code) or a cancelled statement (57014)
StoreFailures == {QueryFailedError, DatabaseError("57014")}

\* a findAll that answers a store failure by caching and returning an empty
\* page after a second attempt
FindAllQueryFails_Retrying(p) ==
  /\ pc[p] = "query"
  /\ UNCHANGED <<userCount, started, probe, firstStored, breakers>>
  /\ LET c == call[p]
         empty == PaginatedResponse(c.dto, <<>>, 0)
     IN /\ cache' = [k \in DOMAIN cache \cup {c.key} |->
                       IF k = c.key THEN [value |-> empty, ttl |-> CacheTtl]
                       ELSE cache[k]]
        /\ Return(p, [NoReturn EXCEPT !.op = "findAll", !.dto = c.dto, !.key = c.key,
                                      !.kind = "value", !.path = "miss",
                                      !.value = empty, !.qb = c.qb,
                                      !.storeCalls = 2, !.table = userCount])

FindAllQueryFails(p) ==
  /\ pc[p] = "query"
  /\ UNCHANGED <<userCount, cache, started, probe, firstStored, breakers>>
  /\ \E failure \in StoreFailures :
       LET c == call[p] IN
       Return(p, [NoReturn EXCEPT !.op = "findAll", !.dto = c.dto, !.key = c.key,
                                  !.kind = "error", !.path = "miss",
                                  !.err = failure, !.qb = c.qb,
                                  !.storeCalls = 1, !.table = userCount])

\* findAll returns the result without having written it to the cache
FindAllSet_WithoutStore(p) ==
  /\ pc[p] = "set"
  /\ UNCHANGED <<userCount, cache, started, probe, firstStored, breakers>>
  /\ LET c == call[p] IN
     Return(p, [NoReturn EXCEPT !.op = "findAll", !.dto = c.dto, !.key = c.key,
                                !.kind = "value", !.path = "miss",
                                !.value = c.result, !.qb = c.qb,
                                !.storeCalls = 1, !.table = c.table])

\* cacheService.set(cacheKey, result, 60) completes and findAll returns
FindAllSet(p) ==
  /\ pc[p] = "set"
  /\ UNCHANGED <<userCount, started, probe, breakers>>
  /\ LET c == call[p]
         entry == [value |-> JsonRoundTrip(c.result), ttl |-> CacheTtl]
     IN /\ cache' = [k \in DOMAIN cache \cup {c.key} |->
                       IF k = c.key THEN entry ELSE cache[k]]
        /\ firstStored' = IF c.dto \in DOMAIN firstStored THEN firstStored
                          ELSE [q \in DOMAIN firstStored \cup {c.dto} |->
                                  IF q = c.dto THEN entry.value ELSE firstStored[q]]
        /\ Return(p, [NoReturn EXCEPT !.op = "findAll", !.dto = c.dto, !.key = c.key,
                                      !.kind = "value", !.path = "miss",
                                      !.value = c.result, !.qb = c.qb,
                                      !.storeCalls = 1,
                                      !.table = c.table])

(***************************************************************************)
(* UsersService.create                                                     *)
(***************************************************************************)
CreateReturn == [NoReturn EXCEPT !.op = "create", !.kind = "value"]

\* userRepository.save(newUser)
CreateSave(p) ==
  /\ pc[p] = "idle"
  /\ started < MaxCalls
  /\ userCount < MaxUsers
  /\ started' = started + 1
  /\ userCount' = userCount + 1
  /\ pc' = [pc EXCEPT ![p] = "keys"]
  /\ call' = [call EXCEPT ![p] = [NoCall EXCEPT !.op = "create"]]
  /\ firstStored' = <<>>
  /\ UNCHANGED <<cache, ret, probe, breakers>>

\* delPattern: redis.keys("users*")
CreateKeys(p) ==
  /\ pc[p] = "keys"
  /\ firstStored' = <<>>
  /\ UNCHANGED <<userCount, cache, started, probe, breakers>>
  /\ LET keys == {k \in DOMAIN cache : MatchesUsersPattern(k)} IN
     IF keys = {}
     THEN Return(p, [CreateReturn EXCEPT !.table = userCount])
     ELSE /\ pc' = [pc EXCEPT ![p] = "del"]
          /\ call' = [call EXCEPT ![p].keys = keys]
          /\ ret' = ret

\* delPattern: redis.del(...keys)
CreateDel(p) ==
  /\ pc[p] = "del"
  /\ UNCHANGED <<userCount, started, probe, breakers>>
  /\ firstStored' = <<>>
  /\ cache' = [k \in DOMAIN cache \ call[p].keys |-> cache[k]]
  /\ Return(p, [CreateReturn EXCEPT !.table = userCount])

\* Redis drops an entry whose time-to-live has elapsed
Expire(k) ==
  /\ k \in DOMAIN cache
  /\ cache' = [j \in DOMAIN cache \ {k} |-> cache[j]]
  /\ firstStored' = [q \in {r \in DOMAIN firstStored : generateCacheKey(r) # k} |->
                       firstStored[q]]
  /\ UNCHANGED <<userCount, pc, call, ret, started, probe, breakers>>

(***************************************************************************)
(* Faults of the cache backend                                             *)
(***************************************************************************)
\* what a Redis command rejects with
CacheError == [type |-> "Error", msg |-> <<"Connection is closed.">>]

\* findAll starts and redis.get rejects: CacheService.get does not catch it
FindAllGetFails(p, dto) ==
  /\ pc[p] = "idle"
  /\ started < MaxCalls
  /\ started' = started + 1
  /\ firstStored' = <<>>
  /\ UNCHANGED <<userCount, cache, probe, breakers>>
  /\ Return(p, [NoReturn EXCEPT !.op = "findAll", !.dto = dto,
                                !.key = generateCacheKey(dto),
                                !.kind = "error", !.path = "get", !.err = CacheError])

\* redis.set rejects: nothing is written, and neither CacheService.set nor
\* findAll catches it
FindAllSetFails(p) ==
  /\ pc[p] = "set"
  /\ firstStored' = <<>>
  /\ UNCHANGED <<userCount, cache, started, probe, breakers>>
  /\ LET c == call[p] IN
     Return(p, [NoReturn EXCEPT !.op = "findAll", !.dto = c.dto, !.key = c.key,
                                !.kind = "error", !.path = "miss", !.err = CacheError,
                                !.qb = c.qb, !.storeCalls = 1, !.table = c.table])

\* the text stored under a key is damaged: it no longer parses as JSON
Corrupt(k) ==
  /\ k \in DOMAIN cache
  /\ cache[k].value # NotJson
  /\ cache' = [cache EXCEPT ![k].value = NotJson]
  /\ firstStored' = <<>>
  /\ UNCHANGED <<userCount, pc, call, ret, started, probe, breakers>>

NoProbe == [op |-> "none"]

Init ==
  /\ userCount \in {0, 2, 3}
  /\ cache = <<>>
  /\ pc = [p \in Procs |-> "idle"]
  /\ call = [p \in Procs |-> NoCall]
  /\ ret = NoReturn
  /\ started = 0
  /\ probe = NoProbe
  /\ firstStored = <<>>
  /\ breakers = <<>>

Next ==
  \/ \E p \in Procs : \E dto \in Requests : FindAllGet(p, dto)
  \/ \E p \in Procs : FindAllQuery(p)
  \/ \E p \in Procs : FindAllQueryFails(p)
  \/ \E p \in Procs : FindAllSet(p)
  \/ \E p \in Procs : CreateSave(p)
  \/ \E p \in Procs : CreateKeys(p)
  \/ \E p \in Procs : CreateDel(p)
  \/ \E k \in DOMAIN cache : Expire(k)

Spec == Init /\ [][Next]_vars

(***************************************************************************)
(* findAll calls only: the data set never changes                          *)
(***************************************************************************)
NextReads ==
  \/ \E p \in Procs : \E dto \in Requests : FindAllGet(p, dto)
  \/ \E p \in Procs : FindAllQuery(p)
  \/ \E p \in Procs : FindAllQueryFails(p)
  \/ \E p \in Procs : FindAllSet(p)
  \/ \E k \in DOMAIN cache : Expire(k)

SpecReads == Init /\ [][NextReads]_vars

(***************************************************************************)
(* The same service with a cache backend that can fail, for a few requests *)
(***************************************************************************)
FaultRequests ==
  { Dto(Undef, Undef, Undef, Undef, Undef),
    Dto(Undef, Undef, S("username"), S("ASC"), Undef),
    Dto(Num(2), Num(2), Undef, Undef, Undef) }

NextFaults ==
  \/ \E p \in Procs : \E dto \in FaultRequests : FindAllGet(p, dto)
  \/ \E p \in Procs : FindAllQuery(p)
  \/ \E p \in Procs : FindAllQueryFails(p)
  \/ \E p \in Procs : FindAllSet(p)
  \/ \E p \in Procs : CreateSave(p)
  \/ \E p \in Procs : CreateKeys(p)
  \/ \E p \in Procs : CreateDel(p)
  \/ \E k \in DOMAIN cache : Expire(k)
  \/ \E p \in Procs : \E dto \in FaultRequests : FindAllGetFails(p, dto)
  \/ \E p \in Procs : FindAllSetFails(p)
  \/ \E k \in DOMAIN cache : Corrupt(k)

SpecFaults == Init /\ [][NextFaults]_vars

(***************************************************************************)
(* Direct calls of the QueryBuilderService methods, with inputs drawn from *)
(* bounded sets; probe records the arguments and what the call did.  Each  *)
(* behaviour makes one call.                                               *)
(***************************************************************************)
\* bounds of the inputs
MaxPage == 4
SmallLimit == 12
Overshoot == 3
MaxTotal == 12
MaxSortLen == 3
MaxLikeLen == 3

PageInputs == {Undef} \cup {Num(n) : n \in (0 - 1)..MaxPage}

LimitValues == ((0 - 3)..SmallLimit) \cup ((MaxLimit - 1)..(MaxLimit + Overshoot))

LimitInputs == {Undef} \cup {Num(n) : n \in LimitValues}

TotalValues ==
  (0..MaxTotal) \cup {MaxLimit - 1, MaxLimit, MaxLimit + 1, 2 * MaxLimit, 2 * MaxLimit + 1}

\* all strings of at most n tokens over an alphabet
StringsUpTo(alphabet, n) == UNION {[1..k -> alphabet] : k \in 0..n}

SortInputs ==
  {Undef} \cup {Str(s) : s \in StringsUpTo({"username", "email", "password", ",", " "},
                                           MaxSortLen)}

SortAllowlists ==
  {allowedSortFields, <<<<"email">>>>, <<<<>>, <<"username">>>>}

\* a builder as findAll hands it over, and one that already carries clauses
StartBuilders ==
  {NewQueryBuilder,
   OrderBy(AndWhere(NewQueryBuilder, <<"user", ".", "email", " = :", "p">>, <<"p">>,
                    S("a@b")),
           <<"user", ".", "id">>, <<"ASC">>)}

LikeStrings == StringsUpTo({"a", "%", "_", "\\"}, MaxLikeLen)

LikeValues ==
  {Str(s) : s \in LikeStrings}
    \cup {Num(7), Null, Undef, Obj(<<F("a", S("%"))>>)}
    \cup {Arr(<<Str(s)>>) : s \in StringsUpTo({"a", "%", "_", "\\"}, 1)}
    \cup {Arr(<<Str(s), Str(u)>>) : s, u \in StringsUpTo({"a", "%"}, 1)}

OperatorInputs == FilterOperators \cup {<<"regex">>, <<"between">>}

OperatorValues ==
  {S("alice"), Num(7), Str(<<"a", "%", "_">>), Arr(<<S("alice"), S("bob")>>), Arr(<<>>)}

DistinctPairs(set) == {pair \in set \X set : pair[1] # pair[2]}

OperatorMaps ==
  {Obj(<<<<o, v>>>>) : o \in OperatorInputs, v \in OperatorValues}
    \cup {Obj(<<<<pair[1], S("alice")>>, <<pair[2], v>>>>) :
            pair \in DistinctPairs(OperatorInputs), v \in {S("bob"), Num(7)}}

FieldInputs ==
  {<<"username">>, <<"email">>, <<"password">>, <<"profile", ".", "name">>,
   <<"profile", "_", "name">>}

ScalarValues == {S("alice"), Num(7), Null, Arr(<<S("alice")>>), Bool(FALSE)}

PairValues ==
  {S("alice"),
   Obj(<<F("eq", S("alice"))>>),
   Obj(<<F("regex", S("x"))>>),
   Obj(<<F("gte", Num(1)), F("lte", Num(7))>>),
   Obj(<<F("in", S("alice"))>>)}

FilterInputs ==
  {Undef, Obj(<<>>)}
    \cup {Obj(<<<<f, v>>>>) : f \in FieldInputs, v \in ScalarValues \cup OperatorMaps}
    \cup {Obj(<<<<pair[1], v>>, <<pair[2], w>>>>) :
            pair \in DistinctPairs(FieldInputs), v \in PairValues, w \in PairValues}
    \cup {Obj(<<F("username", Obj(<<F("like", v)>>))>>) : v \in LikeValues}

FilterAllowlists ==
  {allowedFilterFields, <<<<"username">>, <<"profile", ".", "name">>>>,
   <<<<"username">>, <<"profile", ".", "name">>, <<"profile", "_", "name">>>>}

CallApplyPagination ==
  /\ probe = NoProbe
  /\ \E page \in PageInputs, limit \in LimitInputs :
       LET dto == Dto(page, limit, Undef, Undef, Undef) IN
       probe' = [op |-> "applyPagination", dto |-> dto,
                 qb |-> applyPagination(NewQueryBuilder, dto)]
  /\ UNCHANGED <<userCount, cache, pc, call, ret, started, firstStored, breakers>>

\* paginate, given the builder applyPagination has prepared for the same
\* DTO, against a store that answers with totalCount
CallPaginate ==
  /\ probe = NoProbe
  /\ \E page \in PageInputs, limit \in LimitInputs, totalCount \in TotalValues :
       LET dto == Dto(page, limit, Undef, Undef, Undef) IN
       probe' = [op |-> "paginate", dto |-> dto, totalCount |-> totalCount,
                 qb |-> applyPagination(NewQueryBuilder, dto),
                 result |-> PaginatedResponse(dto, <<>>, totalCount)]
  /\ UNCHANGED <<userCount, cache, pc, call, ret, started, firstStored, breakers>>

CallApplySorting ==
  /\ probe = NoProbe
  /\ \E qb0 \in StartBuilders, sortBy \in SortInputs,
        sortOrder \in {Undef, S("ASC"), S("DESC")}, allowed \in SortAllowlists :
       LET r == applySorting(qb0, sortBy, sortOrder, allowed, UserAlias) IN
       probe' = [op |-> "applySorting", qb0 |-> qb0, sortBy |-> sortBy,
                 sortOrder |-> sortOrder, allowedFields |-> allowed,
                 qb |-> r.qb, err |-> r.err]
  /\ UNCHANGED <<userCount, cache, pc, call, ret, started, firstStored, breakers>>

\* a sortBy checked by the DTO's validator and handed to applySorting with
\* the same allowlist
CallValidate ==
  /\ probe = NoProbe
  /\ \E value \in SortInputs \cup {Null}, allowed \in SortAllowlists :
       probe' = [op |-> "validate", value |-> value, allowedFields |-> allowed,
                 valid |-> validate(value, allowed),
                 err |-> applySorting(NewQueryBuilder, value, Undef, allowed,
                                      UserAlias).err]
  /\ UNCHANGED <<userCount, cache, pc, call, ret, started, firstStored, breakers>>

CallApplyFilters ==
  /\ probe = NoProbe
  /\ \E qb0 \in StartBuilders, filters \in FilterInputs, allowed \in FilterAllowlists,
        clock \in Clocks :
       LET r == applyFilters(qb0, filters, allowed, UserAlias, clock) IN
       probe' = [op |-> "applyFilters", qb0 |-> qb0, filters |-> filters,
                 allowedFields |-> allowed, clock |-> clock,
                 qb |-> r.qb, err |-> r.err]
  /\ UNCHANGED <<userCount, cache, pc, call, ret, started, firstStored, breakers>>

\* the values a second caller sends in place of the first caller's
TwinValues ==
  {S("bob"), Num(9), Str(<<"'", "; DROP TABLE users; --">>),
   Arr(<<S("bob"), S("carol")>>)}

\* the filter map with the same field names and operator keys, every value
\* replaced by v
Revalued(filters, v) ==
  IF filters.t # "obj" THEN filters
  ELSE Obj([i \in 1..Len(filters.v) |->
              LET e == filters.v[i] IN
              IF e[2].t = "obj"
              THEN <<e[1], Obj([j \in 1..Len(e[2].v) |-> <<e[2].v[j][1], v>>])>>
              ELSE <<e[1], v>>])

\* two calls whose filter maps differ in their values only
CallApplyFiltersTwice ==
  /\ probe = NoProbe
  /\ \E filters \in FilterInputs, v \in TwinValues, allowed \in FilterAllowlists,
        clock \in Clocks, clock2 \in Clocks :
       LET filters2 == Revalued(filters, v)
           r == applyFilters(NewQueryBuilder, filters, allowed, UserAlias, clock)
           r2 == applyFilters(NewQueryBuilder, filters2, allowed, UserAlias, clock2)
       IN probe' = [op |-> "applyFiltersTwice", qb0 |-> NewQueryBuilder,
                    filters |-> filters, filters2 |-> filters2, value2 |-> v,
                    allowedFields |-> allowed, clock |-> clock, clock2 |-> clock2,
                    qb |-> r.qb, err |-> r.err, qb2 |-> r2.qb, err2 |-> r2.err]
  /\ UNCHANGED <<userCount, cache, pc, call, ret, started, firstStored, breakers>>

\* the exceptions handed to the filter
Exceptions ==
  { BadRequestException(<<"Invalid sort field">>),
    HttpException(<<"NotFoundException">>, Str(<<"Not found">>), 404, <<"Not found">>),
    HttpException(<<"HttpException">>, Str(<<>>), 503, <<>>),
    HttpException(<<"BadRequestException">>,
                  Obj(<<<<<<"message">>, Str(<<"Custom error">>)>>,
                        <<<<"error">>, Str(<<"Bad Request">>)>>>>),
                  400, <<"Custom error">>),
    HttpException(<<"BadRequestException">>,
                  Obj(<<<<<<"message">>,
                          Arr(<<Str(<<"page must not be less than one">>),
                                Str(<<"limit must be an integer number">>)>>)>>,
                        <<<<"error">>, Str(<<"Bad Request">>)>>,
                        <<<<"statusCode">>, Num(400)>>>>),
                  400, <<"Bad Request Exception">>),
    HttpException(<<"HttpException">>, Obj(<<>>), 418, <<"Http Exception">>),
    QueryFailedError,
    DatabaseError("23505"), DatabaseError("23503"), DatabaseError("22P02"),
    DatabaseError("57014"),
    CacheError,
    [type |-> "Error", msg |-> <<>>],
    [type |-> "Error", msg |-> <<"x is not a function">>, name |-> <<"TypeError">>],
    [type |-> "Error", msg |-> <<"duplicate key">>, code |-> "23505"],
    ThrownValue(Str(<<"boom">>)),
    ThrownValue(Null) }

\* filter.catch(exception, host)
CallCatch ==
  /\ probe = NoProbe
  /\ \E exception \in Exceptions :
       probe' = [op |-> "catch", exception |-> exception,
                 response |-> catch(exception)]
  /\ UNCHANGED <<userCount, cache, pc, call, ret, started, firstStored, breakers>>

InitQB ==
  /\ userCount = 0
  /\ cache = <<>>
  /\ pc = [p \in Procs |-> "idle"]
  /\ call = [p \in Procs |-> NoCall]
  /\ ret = NoReturn
  /\ started = 0
  /\ probe = NoProbe
  /\ firstStored = <<>>
  /\ breakers = <<>>

NextQB ==
  \/ CallApplyPagination
  \/ CallPaginate
  \/ CallApplySorting
  \/ CallApplyFilters
  \/ CallApplyFiltersTwice
  \/ CallCatch
  \/ CallValidate

SpecQB == InitQB /\ [][NextQB]_vars

(***************************************************************************)
(* CircuitBreakerService: createBreaker, execute and clearAll, called in   *)
(* any order.  A breaker is the function it wraps and the options it was   *)
(* built with; firing a (closed) breaker runs that function under those    *)
(* options.  probe holds the last call.                                    *)
(***************************************************************************)
BreakerNames == {"payment-gateway", "mailer"}

\* the functions callers wrap
BreakerActions == {"chargeCard", "refundCard", "sendMail"}

\* the options callers pass: none, or some of the settings
BreakerOptions ==
  {<<>>,
   [timeout |-> 5000],
   [timeout |-> 1000, errorThresholdPercentage |-> 10],
   [resetTimeout |-> 60000]}

\* { timeout: 3000, ..., name, ...options }
defaultOptions(name, options) ==
  LET defaults == [timeout |-> 3000, errorThresholdPercentage |-> 50,
                   resetTimeout |-> 30000, rollingCountTimeout |-> 10000,
                   rollingCountBuckets |-> 10]
      settings == [k \in DOMAIN defaults \cup DOMAIN options |->
                     IF k \in DOMAIN options THEN options[k] ELSE defaults[k]]
  IN [name |-> name, settings |-> settings]

\* the map after createBreaker(name, action, options)
createBreaker(map, name, action, options) ==
  IF name \in DOMAIN map THEN map
  ELSE [n \in DOMAIN map \cup {name} |->
          IF n = name
          THEN [action |-> action, options |-> defaultOptions(name, options)]
          ELSE map[n]]

CreateBreaker(name, action, options) ==
  /\ breakers' = createBreaker(breakers, name, action, options)
  /\ probe' = [op |-> "createBreaker", name |-> name, action |-> action,
                options |-> options, breaker |-> breakers'[name]]
  /\ UNCHANGED <<userCount, cache, pc, call, ret, started, firstStored>>

\* execute(name, action, options, ...args): createBreaker, then fire
Execute(name, action, options) ==
  /\ breakers' = createBreaker(breakers, name, action, options)
  /\ LET breaker == breakers'[name] IN
     probe' = [op |-> "execute", name |-> name, action |-> action,
               options |-> options, existed |-> name \in DOMAIN breakers,
               fired |-> breaker.action, governedBy |-> breaker.options]
  /\ UNCHANGED <<userCount, cache, pc, call, ret, started, firstStored>>

ClearAll ==
  /\ breakers' = <<>>
  /\ probe' = [op |-> "clearAll"]
  /\ UNCHANGED <<userCount, cache, pc, call, ret, started, firstStored>>

NextCB ==
  \/ \E name \in BreakerNames, action \in BreakerActions, options \in BreakerOptions :
       CreateBreaker(name, action, options)
  \/ \E name \in BreakerNames, action \in BreakerActions, options \in BreakerOptions :
       Execute(name, action, options)
  \/ ClearAll

SpecCB == InitQB /\ [][NextCB]_vars

(***************************************************************************)
(* Properties of applyPagination and paginate (checked under SpecQB)       *)
(***************************************************************************)
IsNum(x) == x.t = "num"

\* C6: for every requested limit L, including 0 and negative values, the
\* limit passed to take equals min(max(L, 1), 100).
C6_TakeIsClampedBothWays ==
  (probe.op = "applyPagination" /\ IsNum(probe.dto.limit))
    => probe.qb.take = Num(Min(Max(probe.dto.limit.v, 1), MaxLimit))

\* C7: for page >= 1 and limit >= 1 the offset passed to skip is
\* (page - 1) * limit when limit <= 100 and (page - 1) * 100 when limit > 100.
C7_SkipIsPageOffset ==
  (/\ probe.op = "applyPagination"
   /\ IsNum(probe.dto.page) /\ probe.dto.page.v >= 1
   /\ IsNum(probe.dto.limit) /\ probe.dto.limit.v >= 1)
    => probe.qb.skip =
         Num((probe.dto.page.v - 1)
               * (IF probe.dto.limit.v > 100 THEN 100 ELSE probe.dto.limit.v))

C7_Witness ==
  /\ probe.op = "applyPagination"
  /\ probe.dto.page = Num(3)
  /\ probe.dto.limit = Num(MaxLimit + 2)
  /\ probe.qb.skip = Num(200)
  /\ Called(probe.qb, "skip")

\* n = ceil(total / per) for total >= 0 and per >= 1, stated without division
IsCeilOf(n, total, per) == n * per >= total /\ (n - 1) * per < total

PaginateCase ==
  /\ probe.op = "paginate"
  /\ probe.totalCount >= 0
  /\ IsNum(probe.dto.limit) /\ probe.dto.limit.v >= 1
  /\ IsNum(probe.dto.page) /\ probe.dto.page.v >= 1

FlagsMatch(m, page) ==
  /\ m.hasNextPage = (page < m.totalPages)
  /\ m.hasPreviousPage = (page > 1)

\* C8 as stated: for totalCount >= 0, limit >= 1 and page >= 1, totalPages is
\* ceil(totalCount / limit) for the requested limit, hasNextPage is
\* page < totalPages and hasPreviousPage is page > 1.
C8_TotalPagesOfRequestedLimit ==
  PaginateCase
    => /\ IsCeilOf(probe.result.metadata.totalPages, probe.totalCount, probe.dto.limit.v)
       /\ FlagsMatch(probe.result.metadata, probe.dto.page.v)

\* C8 amended: totalPages is ceil(totalCount / min(limit, 100)), the divisor
\* being the effective limit reported in the metadata; the two flags are as
\* stated, and totalCount = 0 gives totalPages = 0 and hasNextPage = FALSE.
C8_TotalPagesOfEffectiveLimit ==
  PaginateCase
    => /\ IsCeilOf(probe.result.metadata.totalPages, probe.totalCount,
                   Min(probe.dto.limit.v, 100))
       /\ probe.result.metadata.limit = Min(probe.dto.limit.v, 100)
       /\ FlagsMatch(probe.result.metadata, probe.dto.page.v)
       /\ (probe.totalCount = 0
             => probe.result.metadata.totalPages = 0
                  /\ ~probe.result.metadata.hasNextPage)

C8_Witness ==
  /\ PaginateCase
  /\ probe.dto.limit.v > MaxLimit
  /\ probe.totalCount = 2 * MaxLimit + 1
  /\ probe.dto.page.v = 2
  /\ probe.result.metadata.totalPages = 3
  /\ probe.result.metadata.hasNextPage
  /\ probe.result.metadata.hasPreviousPage

(***************************************************************************)
(* Properties of applyFilters and applySorting (checked under SpecQB)      *)
(***************************************************************************)
StartsWith(s, prefix) == Len(s) >= Len(prefix) /\ SubSeq(s, 1, Len(prefix)) = prefix

\* the first element of a list of names that is not in the allowlist
FirstOutside(names, allowed) ==
  names[CHOOSE i \in 1..Len(names) :
          /\ \A a \in 1..Len(allowed) : allowed[a] # names[i]
          /\ \A j \in 1..(i - 1) : \E a \in 1..Len(allowed) : allowed[a] = names[j]]

SomeOutside(names, allowed) ==
  \E i \in 1..Len(names) : \A a \in 1..Len(allowed) : allowed[a] # names[i]

FilterKeys(filters) == [i \in 1..Len(filters.v) |-> filters.v[i][1]]

InvalidFilterCase ==
  /\ probe.op = "applyFilters"
  /\ probe.filters.t = "obj"
  /\ SomeOutside(FilterKeys(probe.filters), probe.allowedFields)

\* C4: if any key of the filter map is not in allowedFields, applyFilters
\* throws 'Invalid filter field: <key>' for the first such key and andWhere
\* is never called, however many valid keys precede the invalid one.
C4_InvalidFilterFieldAddsNothing ==
  InvalidFilterCase
    => /\ probe.err.type = "BadRequestException"
       /\ StartsWith(probe.err.msg,
                     <<"Invalid filter field: ">>
                       \o FirstOutside(FilterKeys(probe.filters), probe.allowedFields)
                       \o <<". Allowed fields: ">>)
       /\ probe.qb = probe.qb0

C4_Witness ==
  /\ InvalidFilterCase
  /\ Len(probe.filters.v) = 2
  /\ probe.filters.v[1][1] = <<"username">>
  /\ probe.filters.v[2][1] = <<"password">>
  /\ probe.err.type = "BadRequestException"
  /\ probe.qb.calls = probe.qb0.calls

InvalidSortCase ==
  /\ probe.op = "applySorting"
  /\ Truthy(probe.sortBy)
  /\ SomeOutside(SortFields(probe.sortBy.v), probe.allowedFields)

\* C5: a given sortBy is split on commas and each name trimmed; if any
\* resulting name, an empty one from a stray comma included, is not in
\* allowedFields, applySorting throws 'Invalid sort field: <name>' and has
\* called neither orderBy nor addOrderBy, even when earlier names are valid.
C5_InvalidSortFieldAddsNothing ==
  InvalidSortCase
    => /\ probe.err.type = "BadRequestException"
       /\ StartsWith(probe.err.msg,
                     <<"Invalid sort field: ">>
                       \o FirstOutside(SortFields(probe.sortBy.v), probe.allowedFields)
                       \o <<". Allowed fields: ">>)
       /\ probe.qb = probe.qb0

C5_Witness ==
  /\ InvalidSortCase
  /\ probe.sortBy = Str(<<"username", ",", " ">>)
  /\ probe.allowedFields = allowedSortFields
  /\ probe.err.msg[1] = "Invalid sort field: "
  /\ probe.err.msg[2] = ". Allowed fields: "
  /\ probe.qb.calls = probe.qb0.calls

UnsupportedOperatorCase ==
  /\ probe.op = "applyFilters"
  /\ probe.err.type = "BadRequestException"
  /\ StartsWith(probe.err.msg, <<"Unsupported filter operator: ">>)

\* the operator keys that occur in a filter map
OperatorKeys(filters) ==
  UNION {{filters.v[i][2].v[j][1] : j \in 1..Len(filters.v[i][2].v)} :
           i \in {n \in 1..Len(filters.v) : filters.v[n][2].t = "obj"}}

\* C3: when applyFilters rejects a filter map for an operator outside the
\* eight supported ones, the exception names that operator and no predicate
\* of the map has been added, wherever the unsupported operator sits.
C3_UnsupportedOperatorAddsNothing ==
  UnsupportedOperatorCase
    => /\ \E o \in OperatorKeys(probe.filters) \ FilterOperators :
            probe.err.msg = <<"Unsupported filter operator: ">> \o o
       /\ probe.qb = probe.qb0

RECURSIVE WellEscaped(_)
\* no unescaped '%', '_' or backslash
WellEscaped(s) ==
  IF s = <<>> THEN TRUE
  ELSE IF Head(s) = "\\"
       THEN Len(s) >= 2 /\ s[2] \in {"%", "_", "\\"} /\ WellEscaped(Tail(Tail(s)))
  ELSE Head(s) \notin {"%", "_"} /\ WellEscaped(Tail(s))

RECURSIVE Unescape(_)
Unescape(s) ==
  IF s = <<>> THEN <<>>
  ELSE IF Head(s) = "\\" /\ Len(s) >= 2 THEN <<s[2]>> \o Unescape(Tail(Tail(s)))
  ELSE <<Head(s)>> \o Unescape(Tail(s))

LikeCase ==
  /\ probe.op = "applyFilters"
  /\ probe.err = NoError
  /\ probe.filters.t = "obj"
  /\ Len(probe.filters.v) = 1
  /\ probe.filters.v[1][2].t = "obj"
  /\ Len(probe.filters.v[1][2].v) = 1
  /\ probe.filters.v[1][2].v[1][1] = <<"like">>

\* C10: for every value v given to like, string or not, the bound parameter
\* is '%' + v + '%' in which every '%', '_' and backslash of v is preceded by
\* an escaping backslash.
C10_LikeParameterIsEscaped ==
  LikeCase
    => LET v == probe.filters.v[1][2].v[1][2]
           w == probe.qb.wheres[Len(probe.qb.wheres)]
           body == SubSeq(w.value.v, 2, Len(w.value.v) - 1)
       IN /\ Len(probe.qb.wheres) = Len(probe.qb0.wheres) + 1
          /\ w.value.t = "str"
          /\ Len(w.value.v) >= 2
          /\ Head(w.value.v) = "%"
          /\ w.value.v[Len(w.value.v)] = "%"
          /\ WellEscaped(body)
          /\ Unescape(body) = ToStr(v)

(***************************************************************************)
(* Properties of UsersService.findAll (checked under Spec)                 *)
(***************************************************************************)
\* the request's sortBy or filters name a field outside the allowlists
NamesInvalidField(dto) ==
  \/ Truthy(dto.sortBy) /\ SomeOutside(SortFields(dto.sortBy.v), allowedSortFields)
  \/ dto.filters.t = "obj" /\ SomeOutside(FilterKeys(dto.filters), allowedFilterFields)

\* C1: in every cache state, a findAll whose sortBy or filters name a field
\* outside the allowlists fails with a BadRequestException, and
\* getManyAndCount is never invoked for it.
C1_InvalidFieldIsRejectedBeforeStore ==
  /\ (ret.op = "findAll" /\ NamesInvalidField(ret.dto))
       => /\ ret.kind = "error"
          /\ ret.err.type = "BadRequestException"
          /\ ret.storeCalls = 0
  /\ \A p \in Procs : pc[p] \in {"query", "set"} => ~NamesInvalidField(call[p].dto)

RejectedForField ==
  /\ ret.op = "findAll"
  /\ ret.kind = "error"
  /\ ret.err.type = "BadRequestException"
  /\ ret.err.msg[1] \in {"Invalid sort field: ", "Invalid filter field: "}

\* C2: whenever findAll rejects a request for an invalid sort or filter
\* field, the query builder has received no predicate and no sort clause.
C2_RejectionLeavesBuilderUntouched ==
  RejectedForField
    => /\ ~Called(ret.qb, "andWhere")
       /\ ~Called(ret.qb, "orderBy")
       /\ ~Called(ret.qb, "addOrderBy")

MissResult == ret.op = "findAll" /\ ret.kind = "value" /\ ret.path = "miss"

\* C9: every findAll result produced on the cache-miss path has
\* data.length = min(limit, max(0, totalCount - (page - 1) * limit)) for the
\* page and limit reported in its metadata.  (A request whose offset or limit
\* comes out negative produces no result: the store rejects the query.)
C9_PageLength ==
  MissResult
    => LET m == ret.value.metadata IN
       Len(ret.value.data) = Min(m.limit, Max(0, m.totalCount - (m.page - 1) * m.limit))

\* a last page that is only partly filled
C9_Witness ==
  /\ MissResult
  /\ ret.value.metadata.page = 2
  /\ ret.value.metadata.limit = 2
  /\ ret.value.metadata.totalCount = 3
  /\ Len(ret.value.data) = 1

(***************************************************************************)
(* Properties of the predicates applyFilters emits (checked under SpecQB)  *)
(***************************************************************************)
\* the predicates one applyFilters call added to the builder it was given
AddedWheres ==
  SubSeq(probe.qb.wheres, Len(probe.qb0.wheres) + 1, Len(probe.qb.wheres))

AcceptedFilterCase ==
  /\ probe.op = "applyFilters"
  /\ probe.err = NoError
  /\ probe.filters.t = "obj"

\* C11: for every filter map one applyFilters call accepts, whatever the
\* allowlist (dotted names and names with underscores included) and even
\* when every predicate is built in the same millisecond, the parameter
\* names bound by the emitted predicates are pairwise distinct.
C11_ParamNamesAreDistinct ==
  AcceptedFilterCase
    => \A i, j \in 1..Len(AddedWheres) :
         i # j => AddedWheres[i].name # AddedWheres[j].name

ParamTokens == ComparisonTokens \cup {") LIKE LOWER(:"}

\* the SQL text of a predicate with its parameter name replaced by "?"
Fragment(w) ==
  LET holes == {i \in 1..Len(w.sql) :
                  /\ w.sql[i] \in ParamTokens
                  /\ i + Len(w.name) <= Len(w.sql)
                  /\ SubSeq(w.sql, i + 1, i + Len(w.name)) = w.name}
  IN IF holes = {} THEN w.sql
     ELSE LET i == CHOOSE h \in holes : TRUE
          IN SubSeq(w.sql, 1, i) \o <<"?">>
               \o SubSeq(w.sql, i + Len(w.name) + 1, Len(w.sql))

Fragments(qb) == [i \in 1..Len(qb.wheres) |-> Fragment(qb.wheres[i])]

\* some token of the value's text occurs in the SQL text
Mentions(sql, value) ==
  \E i \in 1..Len(sql) : \E j \in 1..Len(ToStr(value)) : sql[i] = ToStr(value)[j]

TwinCase ==
  /\ probe.op = "applyFiltersTwice"
  /\ probe.filters.t = "obj"
  /\ probe.filters2 # probe.filters

\* every predicate of the second call binds the second caller's value (for
\* like, its escaped pattern) and its text does not mention the value
ValuesOnlyBound ==
  \A i \in 1..Len(probe.qb2.wheres) :
    LET w == probe.qb2.wheres[i] IN
    /\ ~Mentions(w.sql, probe.value2)
    /\ \/ w.value = probe.value2
       \/ /\ Head(w.sql) = "LOWER("
          /\ w.value = Str(<<"%">> \o ToStr(escapeLikePattern(probe.value2)) \o <<"%">>)

SameInKind ==
  \A i \in 1..Len(probe.filters.v) :
    probe.filters.v[i][2].t = "obj"
      => \A j \in 1..Len(probe.filters.v[i][2].v) :
           probe.filters.v[i][2].v[j][1] = <<"in">>
             => (probe.filters.v[i][2].v[j][2].t = "arr")
                  <=> (probe.filters2.v[i][2].v[j][2].t = "arr")

RECURSIVE FilterEntries(_)
\* the (field, operator, value) entries of a filter map, in the order of its
\* keys; a field given a plain value is an equality
FilterEntries(entries) ==
  IF entries = <<>> THEN <<>>
  ELSE LET e == Head(entries) IN
       (IF e[2].t = "obj"
        THEN [j \in 1..Len(e[2].v) |->
                [field |-> e[1], op |-> e[2].v[j][1], value |-> e[2].v[j][2]]]
        ELSE <<[field |-> e[1], op |-> <<"eq">>, value |-> e[2]]>>)
         \o FilterEntries(Tail(entries))

\* the entries that emit a predicate: all but `in` with a value that is not
\* an array
EmittingEntries(filters) ==
  SelectSeq(FilterEntries(filters.v),
            LAMBDA x : ~(x.op = <<"in">> /\ x.value.t # "arr"))

OperatorSymbol(op) ==
  CASE op = <<"eq">> -> "="
    [] op = <<"ne">> -> "!="
    [] op = <<"gt">> -> ">"
    [] op = <<"gte">> -> ">="
    [] op = <<"lt">> -> "<"
    [] op = <<"lte">> -> "<="

\* the operator table: the text of the predicate for a column, an operator
\* and a parameter name
TemplateText(column, op, name) ==
  CASE op = <<"like">> ->
         <<"LOWER(">> \o column \o <<") LIKE LOWER(:">> \o name \o <<")">>
    [] op = <<"in">> -> column \o <<" IN (:...">> \o name \o <<")">>
    [] OTHER -> column \o <<" " \o OperatorSymbol(op) \o " :">> \o name

ColumnOf(field, alias) ==
  IF \E i \in 1..Len(field) : field[i] = "." THEN field ELSE alias \o <<".">> \o field

SupportedFilterCase ==
  /\ probe.op = "applyFilters"
  /\ probe.filters.t = "obj"
  /\ ~SomeOutside(FilterKeys(probe.filters), probe.allowedFields)
  /\ OperatorKeys(probe.filters) \subseteq FilterOperators

AllowedSortCase ==
  /\ probe.op = "applySorting"
  /\ Truthy(probe.sortBy)
  /\ ~SomeOutside(SortFields(probe.sortBy.v), probe.allowedFields)

RequestedDirection == IF probe.sortOrder.t = "undef" THEN <<"DESC">> ELSE probe.sortOrder.v

\* C14: for every sortBy listing allowed fields f1,...,fn and every
\* direction d, applySorting leaves the query with exactly the clause list
\* [(alias.f1,d),...,(alias.fn,d)]: the first field replaces any earlier
\* ordering (orderBy), the later ones are appended in the listed order
\* (addOrderBy), and all share the direction d.
C14_OrderingIsTheListedFields ==
  AllowedSortCase
    => LET fields == SortFields(probe.sortBy.v) IN
       /\ probe.err = NoError
       /\ probe.qb.orders =
            [i \in 1..Len(fields) |->
               [path |-> UserAlias \o <<".">> \o fields[i], dir |-> RequestedDirection]]
       /\ probe.qb.calls =
            probe.qb0.calls \o [i \in 1..Len(fields) |->
                                  IF i = 1 THEN "orderBy" ELSE "addOrderBy"]
       /\ probe.qb.wheres = probe.qb0.wheres

\* two fields, ascending, on a builder that was already ordered by id
C14_Witness ==
  /\ AllowedSortCase
  /\ probe.sortBy = Str(<<"email", ",", "username">>)
  /\ probe.sortOrder = S("ASC")
  /\ probe.qb0.orders = <<[path |-> <<"user", ".", "id">>, dir |-> <<"ASC">>]>>
  /\ probe.qb.orders = <<[path |-> <<"user", ".", "email">>, dir |-> <<"ASC">>],
                         [path |-> <<"user", ".", "username">>, dir |-> <<"ASC">>]>>

DefaultSortCase ==
  /\ probe.op = "applySorting"
  /\ ~Truthy(probe.sortBy)

\* C15: when sortBy is absent or empty, applySorting leaves exactly one
\* clause, (alias.id, DESC), whatever sortOrder was requested and whatever
\* the allowlist holds, and raises no error although id is in no allowlist.
C15_DefaultOrderingIsIdDesc ==
  DefaultSortCase
    => /\ probe.err = NoError
       /\ probe.qb.orders = <<[path |-> UserAlias \o <<".", "id">>, dir |-> <<"DESC">>]>>
       /\ probe.qb.calls = probe.qb0.calls \o <<"orderBy">>
       /\ probe.qb.wheres = probe.qb0.wheres
       /\ \A a \in 1..Len(probe.allowedFields) : probe.allowedFields[a] # <<"id">>

\* an empty sortBy with ASC requested, on a builder ordered by id ascending
C15_Witness ==
  /\ DefaultSortCase
  /\ probe.sortBy = Str(<<>>)
  /\ probe.sortOrder = S("ASC")
  /\ probe.qb0.orders = <<[path |-> <<"user", ".", "id">>, dir |-> <<"ASC">>]>>
  /\ probe.qb.orders = <<[path |-> <<"user", ".", "id">>, dir |-> <<"DESC">>]>>

(***************************************************************************)
(* Properties of the list cache (checked under Spec and SpecFaults)        *)
(***************************************************************************)
\* C16: after a findAll(q) has completed on the miss path, and as long as no
\* create, expiry or cache fault has intervened, a second findAll(q) does
\* not build a query or go to the store and returns exactly the value the
\* first call stored: findAll answers from get(cache, key) whenever that is
\* not null, so the entry under q's key is still the first call's.
C16_SecondCallReturnsFirstStoredValue ==
  \A q \in DOMAIN firstStored : get(cache, generateCacheKey(q)) = firstStored[q]

\* a step in which some call ends
ReturnStep ==
  \/ \E p \in Procs : pc[p] # "idle" /\ pc'[p] = "idle"
  \/ started' = started + 1 /\ pc' = pc

\* C17: every findAll that returns a result through the miss path has stored
\* it in the cache, under the key of its lookup and with a time-to-live of
\* 60 seconds, before returning: at the moment of the return the cache holds
\* the JSON form of the returned result under generateCacheKey of the request.
C17_MissPathStoresBeforeReturning ==
  [][(ReturnStep /\ ret'.op = "findAll" /\ ret'.kind = "value" /\ ret'.path = "miss")
       => /\ ret'.key = generateCacheKey(ret'.dto)
          /\ call[ret'.proc].key = ret'.key
          /\ ret'.key \in DOMAIN cache'
          /\ cache'[ret'.key] = [value |-> JsonRoundTrip(ret'.value), ttl |-> CacheTtl]]_vars

\* a page of two users returned through the miss path and held in the cache
C17_Witness ==
  /\ MissResult
  /\ Len(ret.value.data) = 2
  /\ ret.key = <<"users", ":", "page", ":", "2", ":", "limit", ":", "2">>
  /\ ret.key \in DOMAIN cache
  /\ cache[ret.key].ttl = 60
  /\ cache[ret.key].value = JsonRoundTrip(ret.value)
  /\ cache[ret.key].value # ret.value

\* C18: if the cache write fails after the store query succeeded, findAll
\* still returns the query result: every call that has its result from the
\* store ends by returning that result.
C18_CacheWriteFailureStillReturns ==
  [][\A p \in Procs :
       (pc[p] = "set" /\ pc'[p] = "idle")
         => /\ ret'.proc = p
            /\ ret'.kind = "value"
            /\ ret'.value = call[p].result]_vars

\* the lookup of findAll(dto) finds text that does not parse as JSON
ReadsCorruptEntry(p, dto) ==
  /\ FindAllGet(p, dto)
  /\ generateCacheKey(dto) \in DOMAIN cache
  /\ cache[generateCacheKey(dto)].value = NotJson

\* the call goes on to build and execute the query
FallsThrough(p, dto) ==
  /\ pc'[p] = "query"
  /\ call'[p].dto = dto
  /\ call'[p].key = generateCacheKey(dto)

\* C19: whenever the cache read faults during findAll, because the backend's
\* get fails or because the stored entry is not valid JSON, findAll treats
\* it as a miss and goes on to build and execute the query instead of
\* failing.
C19_CacheReadFaultIsAMiss ==
  [][\A p \in Procs : \A dto \in FaultRequests :
       (FindAllGetFails(p, dto) \/ ReadsCorruptEntry(p, dto))
         => FallsThrough(p, dto)]_vars

\* the half of C19 about an entry that is not valid JSON
CorruptEntryIsAMiss ==
  [][\A p \in Procs : \A dto \in FaultRequests :
       ReadsCorruptEntry(p, dto) => FallsThrough(p, dto)]_vars

CorruptEntryWasRead ==
  \E p \in Procs :
    /\ pc[p] = "query"
    /\ call[p].key \in DOMAIN cache
    /\ cache[call[p].key].value = NotJson

\* C20: any failure of the store while it executes the query of findAll (a
\* QueryFailedError, whatever its code) reaches the caller, through the
\* global exception filter, as a response with status >= 500.
C20_StoreFailureIsServerError ==
  (ret.op = "findAll" /\ ret.kind = "error" /\ ret.err.type = "QueryFailedError")
    => ret.response.statusCode >= 500

(***************************************************************************)
(* Properties of repeated reads (checked under SpecReads)                  *)
(***************************************************************************)
\* a call returns a result for the request whose result was returned last
RepeatedResult ==
  /\ ReturnStep
  /\ ret.op = "findAll" /\ ret.kind = "value"
  /\ ret'.op = "findAll" /\ ret'.kind = "value"
  /\ ret'.dto = ret.dto

\* C21: with no create (the data set unchanged), any two findAll(q) calls
\* return equal results, whether each is served from the store or from the
\* cache, and also across cache expiry.
C21_RepeatedReadsAreEqual ==
  [][RepeatedResult => ret'.value = ret.value]_vars

\* what the two results do agree on: their JSON text
RepeatedReadsAgreeAsJson ==
  [][RepeatedResult => JsonRoundTrip(ret'.value) = JsonRoundTrip(ret.value)]_vars

(***************************************************************************)
(* Properties of the cache against create (checked under Spec)             *)
(***************************************************************************)
NoCreateRunning == \A p \in Procs : pc[p] \notin {"keys", "del"}

\* the page the store gives for a valid request on the present data set, in
\* the form the cache returns it
CurrentPage(dto) ==
  LET r == getManyAndCount(userCount, BuildQuery(dto, <<5, 5, 5>>).qb)
  IN JsonRoundTrip(PaginatedResponse(dto, r.data, r.totalCount))

\* findAll(dto) starts and is answered from the cache
StartsAndHits(p, dto) ==
  /\ FindAllGet(p, dto)
  /\ get(cache, generateCacheKey(dto)) # Null

\* C22: under every interleaving of findAll and create calls, a findAll that
\* starts once every create has completed does not return a page computed
\* from the data set as it was before a user was saved: when it is answered
\* from the cache, the page is the one the present data set gives.
C22_NoStalePageAfterCreate ==
  [][\A p \in Procs : \A dto \in Requests :
       (NoCreateRunning /\ BuildQuery(dto, <<5, 5, 5>>).err = NoError
          /\ StartsAndHits(p, dto))
         => ret'.value = CurrentPage(dto)]_vars

\* C23: two findAll requests that differ in page, limit, sortBy, sortOrder or
\* filters never map to the same cache key, so a findAll answered from the
\* cache is never given a result that a different request stored.
C23_HitIsForTheSameRequest ==
  [][\A p \in Procs : \A dto \in Requests :
       StartsAndHits(p, dto)
         => \A q \in DOMAIN firstStored :
              generateCacheKey(q) = generateCacheKey(dto) => q = dto]_vars

CatchCase == probe.op = "catch"

ExpectedOfQueryFailedError(code) ==
  CASE code = "23505" -> <<409, Str(<<"ConflictError">>)>>
    [] code = "23503" -> <<400, Str(<<"ReferenceError">>)>>
    [] code = "22P02" -> <<400, Str(<<"ValidationError">>)>>
    [] OTHER -> <<400, Str(<<"QueryError">>)>>

\* C24: the filter chooses the status by exception class in a fixed
\* precedence: an HttpException keeps its own status; otherwise a
\* QueryFailedError gives 409 ConflictError for code 23505, 400 ReferenceError
\* for 23503, 400 ValidationError for 22P02 and 400 QueryError for any other
\* code; otherwise an Error gives 500 with its own message and name; any other
\* thrown value gives 500 'Internal server error' / 'InternalServerError'.
\* The status set on the response equals the statusCode of the body.
C24_StatusFollowsExceptionClass ==
  CatchCase =>
    LET e == probe.exception
        r == probe.response
    IN /\ r.status = r.statusCode
       /\ IsHttpException(e) => r.statusCode = getStatus(e)
       /\ (~IsHttpException(e) /\ IsQueryFailedError(e))
            => <<r.statusCode, r.error>> = ExpectedOfQueryFailedError(ErrorCode(e))
       /\ (~IsHttpException(e) /\ ~IsQueryFailedError(e) /\ IsError(e))
            => /\ r.statusCode = 500
               /\ r.message = Str(e.msg)
               /\ r.error = Str(ErrorName(e))
       /\ ~IsError(e)
            => /\ r.statusCode = 500
               /\ r.message = Str(<<"Internal server error">>)
               /\ r.error = Str(<<"InternalServerError">>)

C24_Witness ==
  /\ CatchCase
  /\ probe.exception = DatabaseError("23505")
  /\ probe.response.statusCode = 409

\* C25: for every exception the filter handles, the message of the response
\* body is a non-empty string.
C25_MessageIsNonEmptyString ==
  CatchCase
    => /\ probe.response.message.t = "str"
       /\ probe.response.message.v # <<>>

\* the number of predicates one entry of an accepted filter map adds
PredicatesOf(e) ==
  IF e[2].t = "obj"
  THEN Len(SelectSeq(e[2].v, LAMBDA o : ~(o[1] = <<"in">> /\ o[2].t # "arr")))
  ELSE 1

RECURSIVE PredicatesBefore(_, _)
PredicatesBefore(entries, i) ==
  IF i <= 1 THEN 0
  ELSE PredicatesBefore(entries, i - 1) + PredicatesOf(entries[i - 1])

PlainValueTypes == {"str", "num", "bool", "null", "arr"}

\* C26: for every allowed field whose filter value is no operator map (a
\* string, number, boolean, null or array), applyFilters adds exactly one
\* predicate '<fieldPath> = :param' bound to that value unchanged, where
\* fieldPath is the field itself when it contains a dot and alias.field
\* otherwise.
C26_PlainValueIsOneEquality ==
  AcceptedFilterCase
    => LET entries == probe.filters.v IN
       /\ Len(AddedWheres) = PredicatesBefore(entries, Len(entries) + 1)
       /\ \A i \in 1..Len(entries) :
            entries[i][2].t \in PlainValueTypes
              => LET w == AddedWheres[PredicatesBefore(entries, i) + 1] IN
                 /\ w.sql = ColumnOf(entries[i][1], UserAlias) \o <<" = :">> \o w.name
                 /\ w.value = entries[i][2]

\* null given for a dotted field
C26_Witness ==
  /\ AcceptedFilterCase
  /\ probe.filters = Obj(<<<<<<"profile", ".", "name">>, Null>>>>)
  /\ Len(AddedWheres) = 1
  /\ AddedWheres[1].sql[1] = "profile"
  /\ AddedWheres[1].value = Null

\* the step in which caller p's findAll ends while awaiting getManyAndCount:
\* the store has failed
QueryEndsCall(p) == pc[p] = "query" /\ pc'[p] = "idle"

\* C27: when the store fails during findAll, the engine has made exactly one
\* execution attempt, passes the store's failure on to the caller and writes
\* nothing to the cache, so the failed request leaves no entry under its key.
C27_StoreFailureIsNotCachedNorRetried ==
  [][\A p \in Procs :
       QueryEndsCall(p)
         => /\ ret'.proc = p
            /\ ret'.op = "findAll"
            /\ ret'.kind = "error"
            /\ ret'.err \in StoreFailures
            /\ ret'.storeCalls = 1
            /\ ret'.dto = call[p].dto
            /\ cache' = cache]_vars

\* a cancelled statement: the call failed and its key holds no entry
C27_Witness ==
  /\ ret.op = "findAll"
  /\ ret.kind = "error"
  /\ ret.err = DatabaseError("57014")
  /\ ret.storeCalls = 1
  /\ ret.key \notin DOMAIN cache
  /\ started >= 2

\* C28: for every QueryDto (page and limit present, missing, 0 or above
\* 100), the page and limit paginate reports in the metadata are the values
\* applyPagination used on the query for that DTO: take = metadata.limit and
\* skip = (metadata.page - 1) * metadata.limit.
C28_MetadataMatchesTheWindow ==
  probe.op = "paginate"
    => LET m == probe.result.metadata IN
       /\ probe.qb.take = Num(m.limit)
       /\ probe.qb.skip = Num((m.page - 1) * m.limit)

\* page 0 and a limit above the maximum
C28_Witness ==
  /\ probe.op = "paginate"
  /\ probe.dto.page = Num(0)
  /\ probe.dto.limit = Num(MaxLimit + 1)
  /\ probe.qb.take = Num(MaxLimit)
  /\ probe.qb.skip = Num(0)
  /\ probe.result.metadata.page = 1

\* C29: the validator of the DTO and the check of the service agree on sort
\* fields: for every string sortBy and every allowlist, validate returns
\* true exactly when applySorting with the same sortBy and allowlist does not
\* throw.
C29_ValidatorAgreesWithApplySorting ==
  (probe.op = "validate" /\ probe.value.t = "str")
    => (probe.valid <=> probe.err = NoError)

\* a list of two allowed names
C29_Witness ==
  /\ probe.op = "validate"
  /\ probe.value = Str(<<"username", ",", "email">>)
  /\ probe.allowedFields = allowedSortFields
  /\ probe.valid
  /\ probe.err = NoError

\* a stray comma, refused by both
C29_RefusedByBoth ==
  /\ probe.op = "validate"
  /\ probe.value = Str(<<"username", ",">>)
  /\ probe.allowedFields = allowedSortFields
  /\ ~probe.valid
  /\ probe.err # NoError

(***************************************************************************)
(* Properties of CircuitBreakerService (checked under SpecCB)              *)
(***************************************************************************)
\* C30: in every sequence of createBreaker, execute and clearAll calls, the
\* function an execute call fires is the action passed to that call,
\* governed by the options passed to that call, also when a breaker of the
\* same name already exists.
C30_ExecuteFiresTheGivenAction ==
  probe.op = "execute"
    => /\ probe.fired = probe.action
       /\ probe.governedBy = defaultOptions(probe.name, probe.options)

\* the same for an execute that creates the breaker it fires
FirstExecuteFiresTheGivenAction ==
  (probe.op = "execute" /\ ~probe.existed)
    => /\ probe.fired = probe.action
       /\ probe.governedBy = defaultOptions(probe.name, probe.options)

=============================================================================
